---- MODULE Spec2Model ----
(***************************************************************************)
(* Model of resources/collage.py: resize_images (the Resampler),           *)
(* create_collage (the Composer) and main (the Orchestrator).              *)
(*                                                                         *)
(* File names are sequences of character codes (Python str compared by     *)
(* code point).  A file's content is a record [ok, w, h, gen]: ok is       *)
(* whether Image.open can decode it, w x h its pixel size, gen the number  *)
(* of resampling passes its pixels went through (0 for a source file).     *)
(* Python floats are IEEE-754 doubles and are modelled exactly, so that     *)
(* int(target_height * (width / height)) is what CPython computes.         *)
(*                                                                         *)
(* The variable entry names the function the run calls: main, or           *)
(* create_collage directly on an image list, or resize_images twice in a   *)
(* row on one folder.                                                      *)
(***************************************************************************)
EXTENDS Integers, Sequences, FiniteSets, TLC

(* ------------------------------ bounds -------------------------------- *)
\* largest number of entries in the source folder
MaxFiles == 3
\* largest width, height and target height of the single-image runs
MaxDim == 15
\* largest image list handed directly to create_collage
MaxImages == 3

(* --------------------------- program constants ------------------------ *)
\* create_collage(..., margin=10, ...)
margin == 10
\* font_size = 30
font_size == 30
\* bits per limb of the 53-bit significand of a Python float (4 * 13 + 1)
LimbBits == 13

(* ------------------------------ strings ------------------------------- *)
\* ".png"
DotPng == <<46, 112, 110, 103>>
\* "resized_"
ResizedPrefix == <<114, 101, 115, 105, 122, 101, 100, 95>>

\* str.lower() on one character (ASCII letters)
LowerChar(c) == IF c >= 65 /\ c <= 90 THEN c + 32 ELSE c

\* str.lower()
Lower(s) == [i \in 1..Len(s) |-> LowerChar(s[i])]

\* str.endswith(suffix)
EndsWith(s, suffix) ==
    /\ Len(s) >= Len(suffix)
    /\ SubSeq(s, Len(s) - Len(suffix) + 1, Len(s)) = suffix

\* the filter of the listing: f.lower().endswith(".png")
IsPngName(f) == EndsWith(Lower(f), DotPng)

\* Python's str < str: code-point order, a proper prefix is smaller
RECURSIVE StrLess(_, _)
StrLess(s, t) ==
    IF t = << >> THEN FALSE
    ELSE IF s = << >> THEN TRUE
    ELSE IF Head(s) # Head(t) THEN Head(s) < Head(t)
    ELSE StrLess(Tail(s), Tail(t))

\* os.path.splitext(...)[0]: cut at the last dot, unless that dot is part
\* of the leading dots of the name
RECURSIVE LeadingDots(_)
LeadingDots(s) ==
    IF s # << >> /\ Head(s) = 46 THEN 1 + LeadingDots(Tail(s)) ELSE 0

SplitextStem(s) ==
    LET dots == {i \in 1..Len(s) : s[i] = 46 /\ i > LeadingDots(s)}
    IN  IF dots = {} THEN s
        ELSE SubSeq(s, 1, (CHOOSE i \in dots : \A j \in dots : j <= i) - 1)

\* "resized_" + os.path.basename(img_path), inside the same folder
TempPath(name) == ResizedPrefix \o name

\* SortNames without the sort
SortNames_unsorted(s) == s

\* list.sort(): insertion into an already sorted list
RECURSIVE InsertSorted(_, _)
InsertSorted(x, s) ==
    IF s = << >> THEN <<x>>
    ELSE IF StrLess(x, Head(s)) THEN <<x>> \o s
    ELSE <<Head(s)>> \o InsertSorted(x, Tail(s))

RECURSIVE SortNames(_)
SortNames(s) ==
    IF s = << >> THEN << >> ELSE InsertSorted(Head(s), SortNames(Tail(s)))

(* ------------------------- double arithmetic -------------------------- *)
\* A double is [m |-> significand, e |-> exponent]: m is the 53-bit
\* significand as five limbs, least significant first (four limbs of
\* LimbBits bits and the leading bit), e the exponent of the leading bit.
\* Exact for sizes below 2^18 and target heights below 2^13.
Base == 2 ^ LimbBits

\* scale num/den into [1, 2): <<num, den, exponent>>
RECURSIVE Normalize(_, _, _)
Normalize(num, den, e) ==
    IF num < den THEN Normalize(2 * num, den, e - 1)
    ELSE IF num >= 2 * den THEN Normalize(num, 2 * den, e + 1)
    ELSE <<num, den, e>>

\* m + 1
Increment(m) ==
    LET k == CHOOSE i \in 1..5 :
                 /\ i = 5 \/ m[i] < Base - 1
                 /\ \A j \in 1..(i - 1) : m[j] = Base - 1
    IN  [i \in 1..5 |-> IF i < k THEN 0 ELSE IF i = k THEN m[i] + 1 ELSE m[i]]

\* round-to-nearest, ties-to-even, given whether the discarded part is
\* above / exactly at one half of the last place
RoundMant(m, e, above, half) ==
    LET up == above \/ (half /\ m[1] % 2 = 1)
        r  == IF up THEN Increment(m) ELSE m
    IN  IF r[5] = 2 THEN [m |-> <<0, 0, 0, 0, 1>>, e |-> e + 1]
        ELSE [m |-> r, e |-> e]

\* img.width / img.height: int / int true division, correctly rounded
FloatDiv(w, h) ==
    LET nz  == Normalize(w, h, 0)
        den == nz[2]
        r0  == nz[1] - den
        l4  == (r0 * Base) \div den
        r1  == (r0 * Base) % den
        l3  == (r1 * Base) \div den
        r2  == (r1 * Base) % den
        l2  == (r2 * Base) \div den
        r3  == (r2 * Base) % den
        l1  == (r3 * Base) \div den
        r4  == (r3 * Base) % den
    IN  RoundMant(<<l1, l2, l3, l4, 1>>, nz[3], 2 * r4 > den, 2 * r4 = den)

\* number of binary digits of a positive integer
RECURSIVE BitLength(_)
BitLength(n) == IF n = 0 THEN 0 ELSE 1 + BitLength(n \div 2)

\* target_height * aspect_ratio: int * float, the exact product correctly
\* rounded back to 53 bits
FloatMulInt(t, f) ==
    LET v1 == f.m[1] * t
        v2 == f.m[2] * t + v1 \div Base
        v3 == f.m[3] * t + v2 \div Base
        v4 == f.m[4] * t + v3 \div Base
        v5 == f.m[5] * t + v4 \div Base
        p  == <<v1 % Base, v2 % Base, v3 % Base, v4 % Base, v5>>
        s  == BitLength(v5) - 1
        lo == 2 ^ s
        hi == 2 ^ (LimbBits - s)
        n  == [i \in 1..5 |->
                 IF i = 5 THEN p[5] \div lo
                 ELSE p[i] \div lo + (p[i + 1] % lo) * hi]
        d  == p[1] % lo
    IN  RoundMant(n, f.e + s, s > 0 /\ 2 * d > lo, s > 0 /\ 2 * d = lo)

\* int(float): truncation toward zero
FloatToInt(f) ==
    IF f.e < 0 THEN 0
    ELSE LET k == 52 - f.e
             j == k \div LimbBits
             b == k % LimbBits
             Term(i) == IF i = j + 1 THEN f.m[i] \div (2 ^ b)
                        ELSE f.m[i] * 2 ^ (LimbBits * (i - j - 1) - b)
         IN  IF j = 4 THEN Term(5)
             ELSE IF j = 3 THEN Term(4) + Term(5)
             ELSE IF j = 2 THEN Term(3) + Term(4) + Term(5)
             ELSE IF j = 1 THEN Term(2) + Term(3) + Term(4) + Term(5)
             ELSE Term(1) + Term(2) + Term(3) + Term(4) + Term(5)

\* NewWidth with round() in place of int()
NewWidth_round(target_height, w, h) ==
    (2 * target_height * w + h) \div (2 * h)

\* new_width = int(target_height * aspect_ratio)
NewWidth(target_height, w, h) ==
    FloatToInt(FloatMulInt(target_height, FloatDiv(w, h)))

(* ------------------------------- state -------------------------------- *)
VARIABLES
    entry,            \* "main", "create_collage" or "resize_images"
    isdir,            \* os.path.isdir(folder_path)
    disk,             \* the source folder: file name -> content
    disk0,            \* the folder as it was when the run started
    target_height,    \* target_height
    images_per_row,   \* images_per_row
    pc,               \* position of the run
    error,            \* the exception that ended the run, or "none"
    image_paths,      \* resize_images: the sorted listing
    idx,              \* index of the next element of the running for loop
    resized_images,   \* resize_images: (label, temp path) pairs so far
    written,          \* every img_resized.save so far: path, source and new size
    run,              \* which call of resize_images is running (1 or 2)
    results,          \* what each finished call of resize_images returned
    images,           \* create_collage: the loaded (name, image) list
    plan_rows,        \* create_collage: the slices of the planning pass
    row_heights,      \* create_collage: row_heights
    row_widths,       \* create_collage: row_widths
    canvas,           \* create_collage: size of the collage image, or NoSize
    y_offset,         \* create_collage: y_offset
    row,              \* create_collage: row of the paste loop
    placed,           \* create_collage: what each paste iteration drew
    collage_file      \* size of the image saved at output_path, or NoSize

vars == <<entry, isdir, disk, disk0, target_height, images_per_row, pc, error,
          image_paths, idx, resized_images, written, run, results, images,
          plan_rows, row_heights, row_widths, canvas, y_offset, row, placed,
          collage_file>>

resizeVars == <<image_paths, idx, resized_images, written>>
collageVars == <<images, plan_rows, row_heights, row_widths, canvas, y_offset,
                 row, placed, collage_file>>
paramVars == <<entry, isdir, disk0, target_height, images_per_row>>

NoSize == <<0, 0>>

\* a decodable image file / a file Image.open cannot read
ImageFile(w, h, gen) == [ok |-> TRUE, w |-> w, h |-> h, gen |-> gen]
BadFile == [ok |-> FALSE, w |-> 0, h |-> 0, gen |-> 0]

NoFiles == [f \in {} |-> BadFile]

(* --------------------------- input universe --------------------------- *)
\* "a.png", "B.PNG", "resized_a.png", "a.b.png", "c.txt"
NameUniverse ==
    { <<97>> \o DotPng,
      <<66, 46, 80, 78, 71>>,
      ResizedPrefix \o <<97>> \o DotPng,
      <<97, 46, 98>> \o DotPng,
      <<99, 46, 116, 120, 116>> }

\* contents of a folder entry
FileContents == {BadFile, ImageFile(1, 3, 0), ImageFile(15, 11, 0)}

\* folders of at most MaxFiles entries
Folders ==
    UNION {[S -> FileContents] :
             S \in {X \in SUBSET NameUniverse : Cardinality(X) <= MaxFiles}}

\* target heights: one that makes the float product fall below an integer
\* (11 * (15 / 11)), and the one main() passes
TargetHeights == {11, 300}

\* images_per_row: small values that give several rows, and the default
RowSizes == {1, 2, 8}

\* sizes of the images handed directly to create_collage
ComposeSizes == {<<1, 1>>, <<2, 3>>, <<3, 2>>}

\* path of the i-th image handed directly to create_collage: "1.png", ...
ComposePath(i) == <<48 + i>> \o DotPng

CommonInit ==
    /\ disk0 = disk
    /\ error = "none"
    /\ image_paths = << >>
    /\ idx = 1
    /\ written = << >>
    /\ run = 1
    /\ results = << >>
    /\ images = << >>
    /\ plan_rows = << >>
    /\ row_heights = << >>
    /\ row_widths = << >>
    /\ canvas = NoSize
    /\ y_offset = 0
    /\ row = 0
    /\ placed = << >>
    /\ collage_file = NoSize

\* main() on a folder of several entries
InitMain ==
    /\ entry = "main"
    /\ isdir \in BOOLEAN
    /\ disk \in (IF isdir THEN Folders ELSE {NoFiles})
    /\ target_height \in TargetHeights
    /\ images_per_row \in RowSizes
    /\ pc = "main"
    /\ resized_images = << >>
    /\ CommonInit

\* main() on a folder of one image, over a range of sizes
InitSizes ==
    /\ entry = "main"
    /\ isdir = TRUE
    /\ \E w \in 1..MaxDim, h \in 1..MaxDim :
           disk = [f \in {<<97>> \o DotPng} |-> ImageFile(w, h, 0)]
    /\ target_height \in 1..MaxDim
    /\ images_per_row = 8
    /\ pc = "main"
    /\ resized_images = << >>
    /\ CommonInit

\* create_collage(image_data, ...) called on a list of images
InitCompose ==
    /\ entry = "create_collage"
    /\ isdir = TRUE
    /\ \E n \in 0..MaxImages : \E sz \in [1..n -> ComposeSizes] :
          /\ disk = [f \in {ComposePath(i) : i \in 1..n} |->
                       LET i == CHOOSE k \in 1..n : ComposePath(k) = f
                       IN  ImageFile(sz[i][1], sz[i][2], 1)]
          /\ resized_images =
                [i \in 1..n |-> <<SplitextStem(ComposePath(i)), ComposePath(i)>>]
    /\ target_height = 960
    /\ images_per_row \in RowSizes
    /\ pc = "create_collage"
    /\ CommonInit

\* resize_images(folder, target_height) called twice on one folder
InitTwice ==
    /\ entry = "resize_images"
    /\ isdir = TRUE
    /\ disk \in Folders
    /\ target_height \in TargetHeights
    /\ images_per_row = 8
    /\ pc = "listdir"
    /\ resized_images = << >>
    /\ CommonInit

Init == InitMain \/ InitSizes \/ InitCompose \/ InitTwice

(* ------------------------------ helpers ------------------------------- *)
\* the orders in which os.listdir may return the entries of S
Listings(S) ==
    {l \in [1..Cardinality(S) -> S] :
        \A i, j \in 1..Cardinality(S) : i # j => l[i] # l[j]}

\* open(path, "wb"): create the file or replace its content
WriteFile(d, path, content) ==
    [f \in DOMAIN d \cup {path} |-> IF f = path THEN content ELSE d[f]]

\* RemoveFile that removes nothing
RemoveFile_noop(d, path) == d

\* os.remove(path)
RemoveFile(d, path) == [f \in DOMAIN d \ {path} |-> d[f]]

\* Image.open(path) succeeds
CanOpen(d, path) == path \in DOMAIN d /\ d[path].ok

\* Python slice s[a:b] (0-based, clipped to the list)
Slice(s, a, b) == SubSeq(s, a + 1, IF b < Len(s) THEN b ELSE Len(s))

\* sum(...) and max(...) over a list of integers
RECURSIVE SeqSum(_)
SeqSum(s) == IF s = << >> THEN 0 ELSE Head(s) + SeqSum(Tail(s))

RECURSIVE SeqMax(_)
SeqMax(s) ==
    IF s = << >> THEN 0
    ELSE LET m == SeqMax(Tail(s)) IN IF Head(s) > m THEN Head(s) ELSE m

\* MaxRaises for max(..., default=0), which never raises
MaxRaises_never(s) == FALSE

\* max() of an empty list raises ValueError
MaxRaises(s) == s = << >>

Widths(imgs) == [i \in 1..Len(imgs) |-> imgs[i].w]
Heights(imgs) == [i \in 1..Len(imgs) |-> imgs[i].h]

\* RowCount rounding down
RowCount_floor(n, per_row) == n \div per_row

\* rows = (len(images) + images_per_row - 1) // images_per_row
RowCount(n, per_row) == (n + per_row - 1) \div per_row

\* images[i * images_per_row:(i + 1) * images_per_row]
RowSlice(imgs, i, per_row) == Slice(imgs, i * per_row, (i + 1) * per_row)

\* one entry of row_heights
RowHeight(row_images) == SeqMax(Heights(row_images)) + font_size + margin

\* RowWidth with one margin per image
RowWidth_margins(row_images) ==
    SeqSum(Widths(row_images)) + margin * Len(row_images)

\* one entry of row_widths
RowWidth(row_images) ==
    SeqSum(Widths(row_images)) + margin * (Len(row_images) - 1)

\* text_y_offset = y_offset - (font_size // 4)
TextY(y) == y - (font_size \div 4)

\* y coordinate of collage.paste: y_offset + font_size + margin // 2
PasteY(y) == y + font_size + margin \div 2

\* x_offset of the k-th image of a row
RECURSIVE PasteX(_, _)
PasteX(row_images, k) ==
    IF k = 1 THEN 0
    ELSE PasteX(row_images, k - 1) + row_images[k - 1].w + margin

(* ------------------------------- main --------------------------------- *)
\* main(): the folder check
MainStart ==
    /\ pc = "main"
    /\ pc' = IF isdir THEN "listdir" ELSE "invalid"
    /\ UNCHANGED <<paramVars, disk, error, resizeVars, run, results,
                   collageVars>>

(* --------------------------- resize_images ---------------------------- *)
\* the listing, the .png filter and the sort
ListDir ==
    /\ pc = "listdir"
    /\ \E l \in Listings({f \in DOMAIN disk : IsPngName(f)}) :
           image_paths' = SortNames(l)
    /\ idx' = 1
    /\ resized_images' = << >>
    /\ pc' = "resize_loop"
    /\ UNCHANGED <<paramVars, disk, error, written, run, results, collageVars>>

\* one iteration of the loop: open, resample, save, append
ResizeOne ==
    /\ pc = "resize_loop"
    /\ idx <= Len(image_paths)
    /\ LET name == image_paths[idx]
           temp == TempPath(name)
       IN  /\ CanOpen(disk, name)
           /\ LET img == disk[name]
                  nw  == NewWidth(target_height, img.w, img.h)
              IN  /\ nw > 0
                  /\ disk' = WriteFile(disk, temp,
                                 ImageFile(nw, target_height, img.gen + 1))
                  /\ written' = Append(written,
                        [path |-> temp, src_w |-> img.w, src_h |-> img.h,
                         w |-> nw, h |-> target_height])
           /\ resized_images' =
                 Append(resized_images, <<SplitextStem(name), temp>>)
    /\ idx' = idx + 1
    /\ UNCHANGED <<paramVars, pc, error, image_paths, run, results,
                   collageVars>>

\* ResizeOpenFails with a handler that removes the files written so far
ResizeOpenFails_cleanup ==
    /\ pc = "resize_loop"
    /\ idx <= Len(image_paths)
    /\ ~CanOpen(disk, image_paths[idx])
    /\ disk' = [f \in DOMAIN disk \ {resized_images[i][2] :
                                       i \in 1..Len(resized_images)} |-> disk[f]]
    /\ pc' = "crashed"
    /\ error' = "OSError"
    /\ UNCHANGED <<paramVars, resizeVars, run, results, collageVars>>

\* Image.open raises: the exception leaves resize_images and main
ResizeOpenFails ==
    /\ pc = "resize_loop"
    /\ idx <= Len(image_paths)
    /\ ~CanOpen(disk, image_paths[idx])
    /\ pc' = "crashed"
    /\ error' = "OSError"
    /\ UNCHANGED <<paramVars, disk, resizeVars, run, results, collageVars>>

\* new_width is 0: img.resize((0, ...)) raises ValueError
ResizeZeroWidth ==
    /\ pc = "resize_loop"
    /\ idx <= Len(image_paths)
    /\ CanOpen(disk, image_paths[idx])
    /\ LET img == disk[image_paths[idx]]
       IN  NewWidth(target_height, img.w, img.h) = 0
    /\ pc' = "crashed"
    /\ error' = "ValueError"
    /\ UNCHANGED <<paramVars, disk, resizeVars, run, results, collageVars>>

\* what a caller sees of the returned list: label and size of each image
Returned ==
    [i \in 1..Len(resized_images) |->
        [label |-> resized_images[i][1],
         w |-> disk[resized_images[i][2]].w,
         h |-> disk[resized_images[i][2]].h]]

\* return resized_images
ResizeReturn ==
    /\ pc = "resize_loop"
    /\ idx > Len(image_paths)
    /\ results' = Append(results, Returned)
    /\ IF entry = "main" THEN pc' = "create_collage" /\ run' = run
       ELSE IF run = 1 THEN pc' = "listdir" /\ run' = 2
       ELSE pc' = "done" /\ run' = run
    /\ UNCHANGED <<paramVars, disk, error, resizeVars, collageVars>>

(* --------------------------- create_collage --------------------------- *)
\* images = [(name, Image.open(img_path)) ...]
CollageLoad ==
    /\ pc = "create_collage"
    /\ IF \A i \in 1..Len(resized_images) : CanOpen(disk, resized_images[i][2])
       THEN /\ images' = [i \in 1..Len(resized_images) |->
                            [name |-> resized_images[i][1],
                             w |-> disk[resized_images[i][2]].w,
                             h |-> disk[resized_images[i][2]].h]]
            /\ pc' = "plan"
            /\ error' = error
       ELSE /\ images' = images
            /\ pc' = "crashed"
            /\ error' = "OSError"
    /\ UNCHANGED <<paramVars, disk, resizeVars, run, results, plan_rows,
                   row_heights, row_widths, canvas, y_offset, row, placed,
                   collage_file>>

\* the planning pass and Image.new
CollagePlan ==
    /\ pc = "plan"
    /\ LET rows == RowCount(Len(images), images_per_row)
           sl   == [i \in 1..rows |-> RowSlice(images, i - 1, images_per_row)]
           rh   == [i \in 1..rows |-> RowHeight(sl[i])]
           rw   == [i \in 1..rows |-> RowWidth(sl[i])]
       IN  /\ ~MaxRaises(rw)
           /\ plan_rows' = sl
           /\ row_heights' = rh
           /\ row_widths' = rw
           /\ canvas' = <<SeqMax(rw), SeqSum(rh) + margin * (rows - 1)>>
    /\ y_offset' = 0
    /\ row' = 0
    /\ pc' = "paste"
    /\ UNCHANGED <<paramVars, disk, error, resizeVars, run, results, images,
                   placed, collage_file>>

\* max(row_widths) on an empty list: ValueError before the canvas exists
CollagePlanRaises ==
    /\ pc = "plan"
    /\ LET rows == RowCount(Len(images), images_per_row)
           rw   == [i \in 1..rows |->
                      RowWidth(RowSlice(images, i - 1, images_per_row))]
       IN  MaxRaises(rw)
    /\ pc' = "crashed"
    /\ error' = "ValueError"
    /\ UNCHANGED <<paramVars, disk, resizeVars, run, results, collageVars>>

\* one iteration of the paste loop: a whole row of labels and images
PasteRow ==
    /\ pc = "paste"
    /\ row < Len(row_heights)
    /\ LET row_images == RowSlice(images, row, images_per_row)
           row_height == SeqMax(Heights(row_images))
       IN  /\ placed' = Append(placed,
                  [row_images |-> row_images,
                   text_y |-> TextY(y_offset),
                   image_y |-> PasteY(y_offset),
                   image_x |-> [k \in 1..Len(row_images) |->
                                   PasteX(row_images, k)],
                   row_height |-> row_height])
           /\ y_offset' = y_offset + row_height + font_size + margin
    /\ row' = row + 1
    /\ UNCHANGED <<paramVars, disk, pc, error, resizeVars, run, results,
                   images, plan_rows, row_heights, row_widths, canvas,
                   collage_file>>

\* collage.save(output_path)
CollageSave ==
    /\ pc = "paste"
    /\ row >= Len(row_heights)
    /\ collage_file' = canvas
    /\ idx' = 1
    /\ pc' = IF entry = "main" THEN "cleanup" ELSE "done"
    /\ UNCHANGED <<paramVars, disk, error, image_paths, resized_images,
                   written, run, results, images, plan_rows, row_heights,
                   row_widths, canvas, y_offset, row, placed>>

(* ------------------------------ cleanup ------------------------------- *)
\* os.remove(img_path) for the next pair of resized_image_data
RemoveOne ==
    /\ pc = "cleanup"
    /\ idx <= Len(resized_images)
    /\ IF resized_images[idx][2] \in DOMAIN disk
       THEN /\ disk' = RemoveFile(disk, resized_images[idx][2])
            /\ idx' = idx + 1
            /\ pc' = pc
            /\ error' = error
       ELSE /\ disk' = disk
            /\ idx' = idx
            /\ pc' = "crashed"
            /\ error' = "FileNotFoundError"
    /\ UNCHANGED <<paramVars, image_paths, resized_images, written, run,
                   results, collageVars>>

\* main() returns
MainReturn ==
    /\ pc = "cleanup"
    /\ idx > Len(resized_images)
    /\ pc' = "done"
    /\ UNCHANGED <<paramVars, disk, error, resizeVars, run, results,
                   collageVars>>

Next ==
    \/ MainStart
    \/ ListDir
    \/ ResizeOne
    \/ ResizeOpenFails
    \/ ResizeZeroWidth
    \/ ResizeReturn
    \/ CollageLoad
    \/ CollagePlan
    \/ CollagePlanRaises
    \/ PasteRow
    \/ CollageSave
    \/ RemoveOne
    \/ MainReturn

Spec == Init /\ [][Next]_vars

(* ------------------------ vocabulary of the claims -------------------- *)
\* the name ends in .png, in any mix of cases
PngSuffix(f) ==
    /\ Len(f) >= 4
    /\ f[Len(f) - 3] = 46
    /\ f[Len(f) - 2] \in {112, 80}
    /\ f[Len(f) - 1] \in {110, 78}
    /\ f[Len(f)] \in {103, 71}

\* s comes before t in lexicographic order of character codes
LexBefore(s, t) ==
    \E k \in 1..(Len(s) + 1) :
        /\ \A i \in 1..(k - 1) : i <= Len(t) /\ s[i] = t[i]
        /\ k <= Len(t)
        /\ k <= Len(s) => s[k] < t[k]

\* sum of f over the finite set S of indices
RECURSIVE SumOver(_, _)
SumOver(S, f) ==
    IF S = {} THEN 0
    ELSE LET x == CHOOSE y \in S : TRUE IN f[x] + SumOver(S \ {x}, f)

\* the largest element of a non-empty finite set of integers
Largest(S) == CHOOSE x \in S : \A y \in S : y <= x

\* indices of the images of row r (rows and indices from 1), per_row a row
RowIndices(n, per_row, r) == {i \in 1..n : (i - 1) \div per_row = r - 1}

\* the rows that hold at least one of n images
RowsOf(n, per_row) == {r \in 1..n : RowIndices(n, per_row, r) # {}}

\* the name a temp path was made from
SourceOf(path) == SubSeq(path, Len(ResizedPrefix) + 1, Len(path))

\* resize_images is at its return statement, in the first call
Returning == pc = "resize_loop" /\ idx > Len(image_paths) /\ run = 1

\* the run was given nothing to lay out
EmptyInput ==
    \/ entry = "main" /\ isdir /\ \A f \in DOMAIN disk0 : ~PngSuffix(f)
    \/ entry = "create_collage" /\ resized_images = << >>

\* main() was ended by a failure to open an image inside resize_images
OpenFailedInResize ==
    /\ entry = "main"
    /\ pc = "crashed"
    /\ error = "OSError"
    /\ results = << >>

(* ------------------------------- claims ------------------------------- *)
\* C1 (as stated): every resized image that is written has height
\* target_height and width round(target_height * w / h), w x h being the
\* size of its source (either neighbour counts as the rounding of a tie).
C1_WidthIsRounded ==
    \A i \in 1..Len(written) :
        LET r == written[i]
            n == target_height * r.src_w
        IN  /\ r.h = target_height
            /\ 2 * r.src_h * r.w >= 2 * n - r.src_h
            /\ 2 * r.src_h * r.w <= 2 * n + r.src_h

\* C1 (amended): every resized image that is written has height
\* target_height and width int(target_height * (w / h)) in double
\* arithmetic: target_height * w / h rounded down when that is not an
\* integer, and that integer or one less when it is.
C1_WidthIsTruncated ==
    \A i \in 1..Len(written) :
        LET r == written[i]
            n == target_height * r.src_w
            q == n \div r.src_h
        IN  /\ r.h = target_height
            /\ IF n % r.src_h = 0 THEN r.w \in {q - 1, q} ELSE r.w = q

\* C1 witness: two images were written, one whose exact width is not an
\* integer and got rounded down past the nearest integer, one whose exact
\* width is an integer and came out one less.
C1_Witness ==
    /\ \E i \in 1..Len(written) :
          LET r == written[i]
              n == target_height * r.src_w
          IN  2 * (n % r.src_h) > r.src_h /\ r.w = n \div r.src_h
    /\ \E i \in 1..Len(written) :
          LET r == written[i]
              n == target_height * r.src_w
          IN  n % r.src_h = 0 /\ r.w = n \div r.src_h - 1

\* C2: the list resize_images returns has exactly one (label, path) pair
\* per folder entry whose name ends in .png in any case, the path being
\* "resized_" + name and the label the start of the name, and the pairs
\* are in strictly ascending lexicographic order of the file names.
C2_SortedPngList ==
    Returning =>
        LET n    == Len(resized_images)
            name == [i \in 1..n |-> SourceOf(resized_images[i][2])]
        IN  /\ {name[i] : i \in 1..n} = {f \in DOMAIN disk0 : PngSuffix(f)}
            /\ n = Cardinality({f \in DOMAIN disk0 : PngSuffix(f)})
            /\ \A i \in 1..n :
                  /\ resized_images[i][2] = ResizedPrefix \o name[i]
                  /\ Len(resized_images[i][1]) <= Len(name[i])
                  /\ resized_images[i][1] =
                        SubSeq(name[i], 1, Len(resized_images[i][1]))
            /\ \A i, j \in 1..n : i < j => LexBefore(name[i], name[j])

\* C2 witness: resize_images returns at least two pairs from a folder that
\* also holds a non-PNG entry and an upper-case .PNG entry.
C2_Witness ==
    /\ Returning
    /\ Len(resized_images) >= 2
    /\ \E f \in DOMAIN disk0 : ~PngSuffix(f)
    /\ \E f \in DOMAIN disk0 : PngSuffix(f) /\ f[Len(f)] = 71

\* C3: once the canvas exists, its width is the largest row width (sum of
\* the row's image widths plus margin between neighbours) and its height
\* the sum over the rows of (tallest image + font_size + margin) plus
\* margin between rows.
C3_CanvasSize ==
    canvas # NoSize =>
        LET n    == Len(images)
            R    == images_per_row
            rs   == RowsOf(n, R)
            wd   == [r \in rs |->
                       SumOver(RowIndices(n, R, r), Widths(images))
                       + margin * (Cardinality(RowIndices(n, R, r)) - 1)]
            ht   == [r \in rs |->
                       Largest({images[i].h : i \in RowIndices(n, R, r)})
                       + font_size + margin]
        IN  /\ n >= 1
            /\ canvas[1] = Largest({wd[r] : r \in rs})
            /\ canvas[2] = SumOver(rs, ht) + margin * (Cardinality(rs) - 1)

\* C3 witness: a canvas for at least two rows, one of them holding two
\* images of different heights.
C3_Witness ==
    /\ canvas # NoSize
    /\ Len(plan_rows) >= 2
    /\ \E r \in 1..Len(plan_rows) :
          Len(plan_rows[r]) = 2 /\ plan_rows[r][1].h # plan_rows[r][2].h

\* C4: for N >= 1 images the planning pass uses exactly ceil(N / R) rows,
\* every row but the last holds R images, the last N mod R (R when that
\* is 0), row r holds the images (r-1)*R+1 ... in input order; every row
\* the paste pass has drawn is the same group, and when the collage is
\* saved the paste pass has drawn all of them.
C4_RowLayout ==
    canvas # NoSize =>
        LET n    == Len(images)
            R    == images_per_row
            k    == Len(plan_rows)
            last == IF n % R = 0 THEN R ELSE n % R
            Group(g, r) ==
                /\ Len(g) = IF r = k THEN last ELSE R
                /\ \A j \in 1..Len(g) : g[j] = images[(r - 1) * R + j]
        IN  /\ n >= 1
            /\ k * R >= n /\ (k - 1) * R < n
            /\ \A r \in 1..k : Group(plan_rows[r], r)
            /\ Len(placed) <= k
            /\ \A r \in 1..Len(placed) : Group(placed[r].row_images, r)
            /\ collage_file # NoSize => Len(placed) = k

\* C4 witness: a saved collage of at least two rows whose last row is
\* not full.
C4_Witness ==
    /\ collage_file # NoSize
    /\ Len(placed) >= 2
    /\ Len(images) % images_per_row # 0

\* C5: when the folder holds no PNG, resize_images returns the empty list;
\* create_collage given an empty list never creates the canvas, never
\* writes the output file and never returns: it ends in a ValueError.
C5_EmptyRejected ==
    EmptyInput =>
        /\ results # << >> => results = << << >> >>
        /\ pc \in {"create_collage", "plan", "crashed"} =>
              resized_images = << >>
        /\ canvas = NoSize
        /\ collage_file = NoSize
        /\ pc \notin {"paste", "cleanup", "done"}
        /\ pc = "crashed" => error = "ValueError"

\* C5 witness: main() on a folder without PNG files, ended by the error
\* of create_collage.
C5_Witness ==
    /\ entry = "main"
    /\ EmptyInput
    /\ results = << << >> >>
    /\ pc = "crashed"
    /\ error = "ValueError"

\* C6: in a run of main the collage is saved only after resize_images has
\* returned, no temp file is removed before the collage is saved, and
\* when main ends normally the collage is saved and no file written by
\* resize_images is left in the folder.
C6_StagesAndCleanup ==
    entry = "main" =>
        /\ collage_file # NoSize =>
              /\ Len(results) = 1
              /\ Len(resized_images) = Len(image_paths)
        /\ (\E i \in 1..Len(written) : written[i].path \notin DOMAIN disk)
              => collage_file # NoSize
        /\ pc = "done" =>
              /\ collage_file # NoSize
              /\ \A i \in 1..Len(written) : written[i].path \notin DOMAIN disk

\* C6 witness: main ended normally after writing at least two temp files.
C6_Witness ==
    /\ entry = "main"
    /\ pc = "done"
    /\ Len(written) >= 2

\* C7: when opening the k-th image fails inside resize_images the run is
\* over; the temp files of images 1..k-1 are on disk as resized images,
\* nothing was created or written at the temp path of image k or of any
\* later image, and there is no collage.
C7_CrashLeavesTemps ==
    OpenFailedInResize =>
        /\ \A i \in 1..(idx - 1) :
              LET p == ResizedPrefix \o image_paths[i]
              IN  /\ p \in DOMAIN disk
                  /\ disk[p].ok
                  /\ disk[p].h = target_height
                  /\ disk[p].gen >= 1
        /\ \A j \in idx..Len(image_paths) :
              LET p == ResizedPrefix \o image_paths[j]
              IN  /\ \A i \in 1..Len(written) : written[i].path # p
                  /\ p \in DOMAIN disk =>
                        p \in DOMAIN disk0 /\ disk[p] = disk0[p]
        /\ canvas = NoSize
        /\ collage_file = NoSize

\* C7 witness: the second of three images failed to open.
C7_Witness ==
    /\ OpenFailedInResize
    /\ idx = 2
    /\ Len(image_paths) = 3

\* C8 (as stated): two calls of resize_images in a row on one folder with
\* one target height return the same labels with the same sizes.
C8_SecondCallSame ==
    (entry = "resize_images" /\ Len(results) = 2) => results[2] = results[1]

\* C9 (as stated): no temp path that resize_images writes (and main later
\* removes) is the path of a file that was in the folder when main began.
C9_TempsAreFresh ==
    entry = "main" =>
        \A i \in 1..Len(written) : written[i].path \notin DOMAIN disk0

\* C10 (as stated): with font_size 30 and margin 10, the labels of row
\* r+1 are drawn at or below the bottom edge of the tallest image of row r.
C10_LabelsBelowPreviousRow ==
    \A r \in 1..(Len(placed) - 1) :
        placed[r + 1].text_y >= placed[r].image_y + placed[r].row_height

====
